---- MODULE Spec2Model ----
(***************************************************************************)
(* Model of the node monitor of leadertv/ltv-node-monitor:                 *)
(*   src/monitor/monitor.py      NodeMonitor.monitor (reconciliation loop) *)
(*   src/monitor/marzban_api.py  MarzbanAPI (node directory client)        *)
(* One step of the model is one externally visible operation of the loop:  *)
(* an API call, a Redis call, a notifier call or a sleep.  Time is counted *)
(* in whole seconds and advances at the sleeps.                            *)
(***************************************************************************)
EXTENDS Integers, Sequences, FiniteSets, TLC

\* ------------------------------------------------------------------ bounds
MaxTime == 80         \* horizon of the clock in Spec (seconds)
ScenarioTime == 130   \* horizon of the clock in SpecScenario
FaultTime == 35       \* horizon of the clock in SpecFaults and SpecCrash
MaxAttempts == 3      \* largest configured self.reconnect_attempts
MaxFaults == 2        \* injected faults per behaviour of SpecFaults
MaxRestarts == 1      \* restarts of the process per behaviour of SpecCrash
ApiTime == 60         \* horizon of the clock in SpecApi

\* ------------------------------------------------- constants of the program
sleep_interval == 30
reconnect_delay == 5
node_check_delay == 10
retries == 3
delay == 5

\* ids of the nodes the management API knows
Nodes == {1, 2}
NoTime == -1

\* statuses of a node object (status field of GET /node/{id})
Statuses == {"connected", "disabled", "connecting", "error"}

\* results of one self.api.get_node call: a status, a payload without a
\* status field, or an exception
GetNodeResults == Statuses \cup {"nostatus", "raise"}

\* lists self.api.get_nodes can return: the nodes of the fleet f, each at
\* most once, in any order
NodeLists(f) ==
  { s \in UNION { [1..k -> f] : k \in 0..Cardinality(f) } :
      \A a, b \in DOMAIN s : a # b => s[a] # s[b] }

VARIABLES
  pc,                 \* position of the loop in monitor()
  nodes,              \* local: the list returned by get_nodes
  idx,                \* position of the for loop in nodes (1-based)
  current_status,     \* local: status of the node being handled
  disconnect_time,    \* local: value read from node_disconnect_time:<id>
  i,                  \* local: index of the reconnect attempt (0-based)
  reconnect_attempts, \* self.reconnect_attempts
  redisStatus,        \* Redis key node_status:<id>
  redisTime,          \* Redis key node_disconnect_time:<id>
  now,                \* time.time()
  fleet,              \* environment: the nodes the API lists
  horizon,            \* environment: time at which the exploration stops
  faults,             \* number of injected faults or restarts so far
  proc,               \* history: what the handling of the current node did
  cyc,                \* history: what the current cycle did
  run,                \* history: per node, the current run of non-connected reports
  rec,                \* history: per node, what was done for its stored record
  apc,                \* position of the API client inside get_nodes
  cache,              \* Redis keys marzban_access_token, marzban_token_expiry
  call                \* locals and history of the current get_nodes call

vars == <<pc, nodes, idx, current_status, disconnect_time, i,
          reconnect_attempts, redisStatus, redisTime, now, fleet, horizon,
          faults, proc, cyc, run, rec, apc, cache, call>>

locals == <<nodes, idx, current_status, disconnect_time, i>>
store == <<redisStatus, redisTime>>
\* what no step of the loop changes, and what few of them change
settings == <<reconnect_attempts, fleet, horizon>>
client == <<apc, cache, call>>
conf == <<settings, client>>
env == <<conf, rec>>

\* ----------------------------------------------------------- pure helpers

\* monitor.py:111  node_status.get("status", "unknown")
StatusOf(r) == IF r = "nostatus" THEN "unknown" ELSE r

\* variant: "disabled" is not exempted
IsDownAlsoDisabled(s) == s # "connected"

\* monitor.py:146  current_status not in ["connected", "disabled"]
IsDown(s) == s \notin {"connected", "disabled"}

\* variant: a disabled node with a stored record is treated as recovered
IsRecoveredOrDisabled(n, s) ==
  s \in {"connected", "disabled"} /\ redisStatus[n] = "disconnected"

\* monitor.py:115-118  the node has recovered
IsRecovered(n, s) == redisStatus[n] = "disconnected" /\ s = "connected"

\* variant: the guard of the alert is dropped
NeedsAlertAlways(n) == TRUE

\* monitor.py:153  the disconnect has not been alerted yet
NeedsAlert(n) == redisStatus[n] # "disconnected"

\* variant: off by one, range(self.reconnect_attempts + 1)
HasAttemptOneMore(k) == k <= reconnect_attempts

\* monitor.py:167  for i in range(self.reconnect_attempts)
HasAttempt(k) == k < reconnect_attempts

\* monitor.py:173  node_status["status"] == "connected"
RefetchConnected(r) == r = "connected"

\* variant: the minutes are truncated instead of rounded
DowntimeMinutesTruncated(reconnect_time, t0) ==
  (100 * (reconnect_time - t0)) \div 60

\* monitor.py:123-124  round((reconnect_time - disconnect_time) / 60, 2),
\* in hundredths of a minute (times are whole seconds, so no tie occurs)
DowntimeMinutes(reconnect_time, t0) ==
  LET downtime == reconnect_time - t0
  IN  (200 * downtime + 60) \div 120

\* variant: the handlers sleep the short delay
ListFailureSleepShort == reconnect_delay

\* monitor.py:71,83  time.sleep(self.sleep_interval) of the list-failure handlers
ListFailureSleep == sleep_interval

\* ------------------------------------------------------ history records
ProcIdle ==
  [node |-> 0, status |-> "none", hadRecord |-> FALSE, t0 |-> NoTime,
   disc |-> 0, recon |-> 0, downtime |-> -1,
   after |-> 0, afterAttempts |-> 0, failed |-> 0, reconnects |-> 0,
   connectedAt |-> 0, staleT0 |-> NoTime, done |-> FALSE]

CycIdle ==
  [listFailed |-> FALSE, failures |-> 0, nodeWork |-> FALSE, slept |-> 0,
   raised |-> FALSE, caught |-> FALSE, storeFault |-> FALSE,
   authError |-> FALSE]

RunIdle ==
  [active |-> FALSE, hadRecord |-> FALSE, t0 |-> NoTime, alerts |-> 0,
   stamps |-> 0, cycles |-> 0, clean |-> TRUE]

\* since a key of the node was last deleted: was ERROR_NODE_DISCONNECTED
\* sent, the first value written to node_disconnect_time:<id>, the number of
\* SUCCESS_NODE_RECONNECTED sent, and was the node seen disabled while
\* node_status:<id> was "disconnected"
RecIdle ==
  [alerted |-> FALSE, t0 |-> NoTime, recon |-> 0, disabledSeen |-> FALSE]

\* a report s of the initial get_node of a cycle for node n
RecOnReport(n, s) ==
  IF s = "disabled" /\ redisStatus[n] = "disconnected"
  THEN [rec[n] EXCEPT !.disabledSeen = TRUE]
  ELSE rec[n]

\* a report s of the initial get_node of a cycle for node n: a run is a
\* maximal sequence of cycles whose report is neither connected nor disabled
RunOnReport(n, s) ==
  IF ~IsDown(s) THEN RunIdle
  ELSE IF run[n].active THEN run[n]
  ELSE [RunIdle EXCEPT !.active = TRUE,
                       !.hadRecord = (redisStatus[n] = "disconnected"),
                       !.t0 = redisTime[n]]

\* a report s of a re-fetch inside the reconnect loop: the run ends when
\* the node is seen connected
RunOnRefetch(n, s) == IF s = "connected" THEN RunIdle ELSE run[n]

NodeWork == [cyc EXCEPT !.nodeWork = TRUE]

\* marzban_api.py:17-18  no token is cached: neither key exists.  token is
\* the time at which the cached token was issued, tokenTtl and expiryTtl
\* are the times at which Redis drops the keys.
CacheEmpty ==
  [token |-> NoTime, tokenTtl |-> NoTime, expiry |-> NoTime,
   expiryTtl |-> NoTime]

\* marzban_api.py:80-82  a get_nodes call that has done nothing yet: attempts
\* finished, list requests sent, transient failures, seconds slept, outcome
\* of the call, body returned, the last response, the number of the request
\* that was answered with a body that is no list of node objects; of the
\* current get_cached_token: how the token was obtained, why authenticate
\* was called, the POSTs sent, whether the except branch has been entered,
\* the token, its expires_in and the expiry it was returned with
CallIdle ==
  [attempt |-> 0, requests |-> 0, transients |-> 0, slept |-> 0,
   result |-> "none", body |-> "none", lastOutcome |-> "none",
   malformedAt |-> 0,
   path |-> "none", why |-> "none", posts |-> 0, inHandler |-> FALSE,
   token |-> NoTime, expires_in |-> 0, retExpiry |-> NoTime]

\* ------------------------------------------------------------------ Init
InitWith(f, h) ==
  /\ fleet = f
  /\ horizon = h
  /\ pc = "start"
  /\ nodes = << >>
  /\ idx = 1
  /\ current_status = "none"
  /\ disconnect_time = NoTime
  /\ i = 0
  /\ reconnect_attempts \in 1..MaxAttempts
  /\ redisStatus = [n \in Nodes |-> "none"]
  /\ redisTime = [n \in Nodes |-> NoTime]
  /\ now = 0
  /\ faults = 0
  /\ proc = ProcIdle
  /\ cyc = CycIdle
  /\ run = [n \in Nodes |-> RunIdle]
  /\ rec = [n \in Nodes |-> RecIdle]
  /\ apc = "idle"
  /\ cache = CacheEmpty
  /\ call = CallIdle

Init == InitWith(Nodes, MaxTime)
InitScenario == InitWith({1}, ScenarioTime)
InitFaults == InitWith(Nodes, FaultTime)
InitApi == InitWith(Nodes, ApiTime)

\* --------------------------------------------------------------- actions

\* monitor.py:47-50  MONITOR_START, then the loop is entered
Start ==
  /\ pc = "start"
  /\ pc' = "list"
  /\ UNCHANGED <<locals, env, store, now, faults, proc, cyc, run>>

\* monitor.py:52-60, 61, 73  self.api.get_nodes(): a list, TimeoutError or
\* another exception.  The time get_nodes spends in its own retries is not
\* counted.
ListNodes ==
  /\ pc = "list"
  /\ \/ \E l \in NodeLists(fleet) :
          /\ nodes' = l
          /\ idx' = 1
          /\ pc' = "loop"
          /\ cyc' = CycIdle
     \/ /\ pc' \in {"listTimeout", "listError"}
        /\ cyc' = [CycIdle EXCEPT !.listFailed = TRUE]
        /\ UNCHANGED <<nodes, idx>>
  /\ UNCHANGED <<current_status, disconnect_time, i, env,
                 store, now, faults, proc, run>>

\* monitor.py:61-70  except TimeoutError: ERROR_MONITOR_FAILURE
ListTimeoutAlert ==
  /\ pc = "listTimeout"
  /\ cyc' = [cyc EXCEPT !.failures = @ + 1]
  /\ pc' = "failSleep"
  /\ UNCHANGED <<locals, env, store, now, faults, proc, run>>

\* monitor.py:73-82  except Exception: ERROR_MONITOR_FAILURE
ListErrorAlert ==
  /\ pc = "listError"
  /\ cyc' = [cyc EXCEPT !.failures = @ + 1]
  /\ pc' = "failSleep"
  /\ UNCHANGED <<locals, env, store, now, faults, proc, run>>

\* monitor.py:71-72, 83-84  time.sleep(self.sleep_interval); continue
ListFailureWait ==
  /\ pc = "failSleep"
  /\ now + ListFailureSleep <= horizon
  /\ now' = now + ListFailureSleep
  /\ cyc' = [cyc EXCEPT !.slept = @ + ListFailureSleep]
  /\ pc' = "list"
  /\ UNCHANGED <<locals, env, store, faults, proc, run>>

\* variant: a failed get_node ends the for loop (break instead of continue)
AfterGetNodeFailureBreak(k) == Len(nodes) + 1

\* monitor.py:100-109  except ...: continue, the for loop goes to the next
\* position of the list
AfterGetNodeFailure(k) == k + 1

\* monitor.py:86-112  next node of the for loop, self.api.get_node(node_id)
GetNode ==
  /\ pc = "loop"
  /\ idx <= Len(nodes)
  /\ \E r \in GetNodeResults :
       LET n == nodes[idx]
           s == StatusOf(r)
           p == [ProcIdle EXCEPT !.node = n,
                                 !.hadRecord = (redisStatus[n] = "disconnected"),
                                 !.t0 = redisTime[n],
                                 !.staleT0 = IF rec[n].disabledSeen
                                             THEN rec[n].t0 ELSE NoTime]
       IN  IF r = "raise"
           THEN /\ idx' = AfterGetNodeFailure(idx)
                /\ pc' = "loop"
                /\ proc' = [p EXCEPT !.status = "raise", !.done = TRUE]
                /\ cyc' = NodeWork
                /\ UNCHANGED <<current_status, run, rec>>
           ELSE /\ current_status' = s
                /\ pc' = "checkRecovered"
                /\ proc' = [p EXCEPT !.status = s]
                /\ run' = [run EXCEPT ![n] = RunOnReport(n, s)]
                /\ rec' = [rec EXCEPT ![n] = RecOnReport(n, s)]
                /\ cyc' = NodeWork
                /\ UNCHANGED idx
  /\ UNCHANGED <<nodes, disconnect_time, i, conf, store, now, faults>>

\* monitor.py:86  the for loop moves to the next node.  The locals of the
\* node just handled are dead from here on (each is assigned before it is
\* read again), so the model clears them.
EndNode ==
  /\ pc' = "loop"
  /\ idx' = idx + 1
  /\ current_status' = "none"
  /\ disconnect_time' = NoTime
  /\ i' = 0

\* monitor.py:146  if current_status not in ["connected", "disabled"]
AfterRecovery ==
  IF IsDown(current_status)
  THEN /\ pc' = "checkAlerted"
       /\ UNCHANGED <<idx, current_status, disconnect_time, i>>
  ELSE EndNode

\* monitor.py:115-118  self.redis.get(node_redis_key) == b"disconnected" and ...
CheckRecovered ==
  /\ pc = "checkRecovered"
  /\ IF IsRecovered(nodes[idx], current_status)
     THEN /\ pc' = "getTime"
          /\ UNCHANGED <<idx, current_status, disconnect_time, i>>
          /\ proc' = proc
     ELSE /\ AfterRecovery
          /\ proc' = [proc EXCEPT !.done = ~IsDown(current_status)]
  /\ cyc' = NodeWork
  /\ UNCHANGED <<nodes, env, store, now, faults, run>>

\* monitor.py:119-120  disconnect_time = self.redis.get(node_disconnect_time_key)
\* (a stored value is a non-empty byte string, hence true at line 120)
GetDisconnectTime ==
  /\ pc = "getTime"
  /\ disconnect_time' = redisTime[nodes[idx]]
  /\ pc' = IF redisTime[nodes[idx]] # NoTime THEN "sendReconnected" ELSE "delStatus"
  /\ cyc' = NodeWork
  /\ UNCHANGED <<nodes, idx, current_status, i, env, store, now,
                 faults, proc, run>>

\* monitor.py:121-141  SUCCESS_NODE_RECONNECTED with downtime_minutes
SendReconnected ==
  /\ pc = "sendReconnected"
  /\ proc' = [proc EXCEPT !.recon = @ + 1,
                          !.downtime = DowntimeMinutes(now, disconnect_time)]
  /\ rec' = [rec EXCEPT ![nodes[idx]].recon = @ + 1]
  /\ pc' = "delStatus"
  /\ cyc' = NodeWork
  /\ UNCHANGED <<locals, conf, store, now, faults, run>>

\* monitor.py:142  self.redis.delete(node_redis_key)
DeleteStatus ==
  /\ pc = "delStatus"
  /\ redisStatus' = [redisStatus EXCEPT ![nodes[idx]] = "none"]
  /\ rec' = [rec EXCEPT ![nodes[idx]] = RecIdle]
  /\ pc' = "delTime"
  /\ cyc' = NodeWork
  /\ UNCHANGED <<locals, conf, redisTime, now, faults, proc, run>>

\* monitor.py:143, 146  self.redis.delete(node_disconnect_time_key)
DeleteTime ==
  /\ pc = "delTime"
  /\ redisTime' = [redisTime EXCEPT ![nodes[idx]] = NoTime]
  /\ rec' = [rec EXCEPT ![nodes[idx]] = RecIdle]
  /\ AfterRecovery
  /\ proc' = [proc EXCEPT !.done = ~IsDown(current_status)]
  /\ cyc' = NodeWork
  /\ UNCHANGED <<nodes, conf, redisStatus, now, faults, run>>

\* monitor.py:153  if self.redis.get(node_redis_key) != b"disconnected"
CheckAlerted ==
  /\ pc = "checkAlerted"
  /\ IF NeedsAlert(nodes[idx])
     THEN /\ pc' = "sendDisconnected"
          /\ UNCHANGED i
     ELSE /\ pc' = "attempt"
          /\ i' = 0
  /\ cyc' = NodeWork
  /\ UNCHANGED <<nodes, idx, current_status, disconnect_time, env,
                 store, now, faults, proc, run>>

\* monitor.py:154-163  ERROR_NODE_DISCONNECTED
SendDisconnected ==
  /\ pc = "sendDisconnected"
  /\ proc' = [proc EXCEPT !.disc = @ + 1]
  /\ run' = [run EXCEPT ![nodes[idx]].alerts = @ + 1]
  /\ rec' = [rec EXCEPT ![nodes[idx]].alerted = TRUE]
  /\ pc' = "setTime"
  /\ cyc' = NodeWork
  /\ UNCHANGED <<locals, conf, store, now, faults>>

\* monitor.py:164  self.redis.set(node_disconnect_time_key, time.time())
SetDisconnectTime ==
  /\ pc = "setTime"
  /\ redisTime' = [redisTime EXCEPT ![nodes[idx]] = now]
  /\ run' = [run EXCEPT ![nodes[idx]].stamps = @ + 1,
                        ![nodes[idx]].t0 = IF run[nodes[idx]].stamps = 0
                                           THEN now ELSE @]
  /\ rec' = [rec EXCEPT ![nodes[idx]].t0 = IF @ = NoTime THEN now ELSE @]
  /\ proc' = [proc EXCEPT !.t0 = now]
  /\ i' = 0
  /\ pc' = "attempt"
  /\ cyc' = NodeWork
  /\ UNCHANGED <<nodes, idx, current_status, disconnect_time, conf,
                 redisStatus, now, faults>>

\* monitor.py:167-169, 194, 200  next attempt: self.api.reconnect_node(node_id)
Reconnect ==
  /\ pc = "attempt"
  /\ IF HasAttempt(i)
     THEN /\ proc' = [proc EXCEPT !.reconnects = @ + 1]
          /\ \/ /\ pc' = "checkDelay"
                /\ run' = [run EXCEPT ![nodes[idx]].clean = FALSE]
             \/ /\ pc' = "reconnectDelay"
                /\ run' = run
     ELSE /\ pc' = "sendFailed"
          /\ UNCHANGED <<proc, run>>
  /\ cyc' = NodeWork
  /\ UNCHANGED <<locals, env, store, now, faults>>

\* monitor.py:170  time.sleep(self.node_check_delay)
CheckDelay ==
  /\ pc = "checkDelay"
  /\ now + node_check_delay <= horizon
  /\ now' = now + node_check_delay
  /\ pc' = "refetch"
  /\ cyc' = NodeWork
  /\ UNCHANGED <<locals, env, store, faults, proc, run>>

\* monitor.py:171-173, 194  node_status = self.api.get_node(node_id)
Refetch ==
  /\ pc = "refetch"
  /\ \E r \in GetNodeResults :
       IF r \in {"raise", "nostatus"}
       THEN /\ pc' = "reconnectDelay"
            /\ UNCHANGED <<i, proc, run>>
       ELSE /\ run' = [run EXCEPT ![nodes[idx]] = RunOnRefetch(nodes[idx], r)]
            /\ IF RefetchConnected(r)
               THEN /\ pc' = "sendAfterAttempts"
                    /\ proc' = [proc EXCEPT !.connectedAt =
                                  IF @ = 0 THEN i + 1 ELSE @]
                    /\ UNCHANGED i
               ELSE /\ pc' = "attempt"
                    /\ i' = i + 1
                    /\ proc' = proc
  /\ cyc' = NodeWork
  /\ UNCHANGED <<nodes, idx, current_status, disconnect_time, env,
                 store, now, faults>>

\* monitor.py:174-190  SUCCESS_NODE_RECONNECTED_AFTER_ATTEMPTS, attempts=i + 1
SendAfterAttempts ==
  /\ pc = "sendAfterAttempts"
  /\ proc' = [proc EXCEPT !.after = @ + 1, !.afterAttempts = i + 1]
  /\ pc' = "delStatusA"
  /\ cyc' = NodeWork
  /\ UNCHANGED <<locals, env, store, now, faults, run>>

\* monitor.py:191  self.redis.delete(node_redis_key)
DeleteStatusAfter ==
  /\ pc = "delStatusA"
  /\ redisStatus' = [redisStatus EXCEPT ![nodes[idx]] = "none"]
  /\ rec' = [rec EXCEPT ![nodes[idx]] = RecIdle]
  /\ pc' = "delTimeA"
  /\ cyc' = NodeWork
  /\ UNCHANGED <<locals, conf, redisTime, now, faults, proc, run>>

\* variant: the break is missing, the for loop goes on to the next attempt
DeleteTimeAfterNoBreak ==
  /\ pc = "delTimeA"
  /\ redisTime' = [redisTime EXCEPT ![nodes[idx]] = NoTime]
  /\ rec' = [rec EXCEPT ![nodes[idx]] = RecIdle]
  /\ pc' = "attempt"
  /\ i' = i + 1
  /\ cyc' = NodeWork
  /\ UNCHANGED <<nodes, idx, current_status, disconnect_time, conf,
                 redisStatus, now, faults, proc, run>>

\* monitor.py:192-193  self.redis.delete(node_disconnect_time_key); break
DeleteTimeAfter ==
  /\ pc = "delTimeA"
  /\ redisTime' = [redisTime EXCEPT ![nodes[idx]] = NoTime]
  /\ rec' = [rec EXCEPT ![nodes[idx]] = RecIdle]
  /\ EndNode
  /\ proc' = [proc EXCEPT !.done = TRUE]
  /\ cyc' = NodeWork
  /\ UNCHANGED <<nodes, conf, redisStatus, now, faults, run>>

\* monitor.py:194-198  except Exception: time.sleep(self.reconnect_delay)
ReconnectDelay ==
  /\ pc = "reconnectDelay"
  /\ now + reconnect_delay <= horizon
  /\ now' = now + reconnect_delay
  /\ i' = i + 1
  /\ pc' = "attempt"
  /\ cyc' = NodeWork
  /\ UNCHANGED <<nodes, idx, current_status, disconnect_time, env,
                 store, faults, proc, run>>

\* monitor.py:200-219  for ... else: ERROR_NODE_RECONNECT_FAILED
SendReconnectFailed ==
  /\ pc = "sendFailed"
  /\ proc' = [proc EXCEPT !.failed = @ + 1]
  /\ pc' = "setStatus"
  /\ cyc' = NodeWork
  /\ UNCHANGED <<locals, env, store, now, faults, run>>

\* variant: the disconnect time is stamped again with the status
SetStatusRestamps ==
  /\ pc = "setStatus"
  /\ redisStatus' = [redisStatus EXCEPT ![nodes[idx]] = "disconnected"]
  /\ redisTime' = [redisTime EXCEPT ![nodes[idx]] = now]
  /\ EndNode
  /\ proc' = [proc EXCEPT !.done = TRUE]
  /\ run' = [run EXCEPT ![nodes[idx]].cycles =
               IF run[nodes[idx]].active THEN @ + 1 ELSE @]
  /\ cyc' = NodeWork
  /\ UNCHANGED <<nodes, env, now, faults>>

\* monitor.py:220  self.redis.set(node_redis_key, "disconnected")
SetStatus ==
  /\ pc = "setStatus"
  /\ redisStatus' = [redisStatus EXCEPT ![nodes[idx]] = "disconnected"]
  /\ EndNode
  /\ proc' = [proc EXCEPT !.done = TRUE]
  /\ run' = [run EXCEPT ![nodes[idx]].cycles =
               IF run[nodes[idx]].active THEN @ + 1 ELSE @]
  /\ cyc' = NodeWork
  /\ UNCHANGED <<nodes, env, redisTime, now, faults>>

\* monitor.py:222  time.sleep(self.sleep_interval) after the last node
CycleSleep ==
  /\ pc = "loop"
  /\ idx > Len(nodes)
  /\ now + sleep_interval <= horizon
  /\ now' = now + sleep_interval
  /\ cyc' = [cyc EXCEPT !.slept = @ + sleep_interval]
  /\ proc' = ProcIdle
  /\ pc' = "list"
  /\ UNCHANGED <<locals, env, store, faults, run>>

\* monitor.py:224-234  except Exception: ERROR_MONITOR_FAILURE, then the
\* while loop starts the next cycle (no sleep on this path)
CatchAll ==
  /\ pc = "handler"
  /\ cyc' = [cyc EXCEPT !.failures = @ + 1, !.caught = TRUE]
  /\ proc' = ProcIdle
  /\ current_status' = "none"
  /\ disconnect_time' = NoTime
  /\ i' = 0
  /\ pc' = "list"
  /\ UNCHANGED <<nodes, idx, env, store, now, faults, run>>

\* ------------------------------------------------------------- faults

\* positions at which the loop calls Redis outside / inside the try of the
\* reconnect loop (monitor.py:168-198)
StoreCalls ==
  {"checkRecovered", "getTime", "delStatus", "delTime", "checkAlerted",
   "setTime", "setStatus"}
StoreCallsInTry == {"delStatusA", "delTimeA"}

\* positions at which the loop calls the notifier
NotifierCalls ==
  {"listTimeout", "listError", "sendReconnected", "sendDisconnected",
   "sendFailed"}
NotifierCallsInTry == {"sendAfterAttempts"}
NotifierCallsUnguarded == {"start", "handler"}

\* where an exception raised at position p is caught: the except of the
\* reconnect loop (monitor.py:194), the catch-all of the cycle
\* (monitor.py:224), or nowhere (monitor.py:47, 227: it leaves monitor())
Catcher(p) ==
  IF p \in StoreCallsInTry \cup NotifierCallsInTry THEN "reconnectDelay"
  ELSE IF p \in NotifierCallsUnguarded THEN "terminated"
  ELSE "handler"

\* monitor.py:89-90  node["id"] or node["name"] raises KeyError: the entry
\* of the list lacks the field
EntryFault ==
  /\ pc = "loop"
  /\ idx <= Len(nodes)
  /\ faults < MaxFaults
  /\ faults' = faults + 1
  /\ pc' = "handler"
  /\ cyc' = [cyc EXCEPT !.raised = TRUE]
  /\ UNCHANGED <<locals, env, store, now, proc, run>>

\* a Redis call raises (redis.ConnectionError: backing store unreachable)
StoreFault ==
  /\ pc \in StoreCalls \cup StoreCallsInTry
  /\ faults < MaxFaults
  /\ faults' = faults + 1
  /\ pc' = Catcher(pc)
  /\ cyc' = [cyc EXCEPT !.storeFault = TRUE, !.nodeWork = TRUE,
                         !.raised = (@ \/ Catcher(pc) = "handler")]
  /\ UNCHANGED <<locals, env, store, now, proc, run>>

\* self.notifier.send_message raises
NotifierFault ==
  /\ pc \in NotifierCalls \cup NotifierCallsInTry \cup NotifierCallsUnguarded
  /\ faults < MaxFaults
  /\ faults' = faults + 1
  /\ pc' = Catcher(pc)
  /\ cyc' = [cyc EXCEPT !.raised = (@ \/ Catcher(pc) = "handler")]
  /\ UNCHANGED <<locals, env, store, now, proc, run>>

\* marzban_api.py:71-73, 77, 99-101, 113, 126  get_auth_headers raises
\* Exception("Authentication failed") inside an API call of the loop.  It
\* leaves get_nodes (caught at monitor.py:73), get_node of the for loop
\* (caught at monitor.py:105: continue), reconnect_node or the get_node of
\* the reconnect loop (both caught at monitor.py:194).
AuthFault ==
  /\ faults < MaxFaults
  /\ faults' = faults + 1
  /\ \/ /\ pc = "list"
        /\ pc' = "listError"
        /\ cyc' = [CycIdle EXCEPT !.listFailed = TRUE, !.authError = TRUE]
        /\ UNCHANGED <<idx, proc>>
     \/ /\ pc = "loop"
        /\ idx <= Len(nodes)
        /\ idx' = AfterGetNodeFailure(idx)
        /\ pc' = "loop"
        /\ proc' = [ProcIdle EXCEPT
                      !.node = nodes[idx],
                      !.hadRecord = (redisStatus[nodes[idx]] = "disconnected"),
                      !.t0 = redisTime[nodes[idx]],
                      !.status = "raise",
                      !.done = TRUE]
        /\ cyc' = [cyc EXCEPT !.nodeWork = TRUE, !.authError = TRUE]
     \/ /\ pc = "attempt"
        /\ HasAttempt(i)
        /\ pc' = "reconnectDelay"
        /\ proc' = [proc EXCEPT !.reconnects = @ + 1]
        /\ cyc' = [cyc EXCEPT !.nodeWork = TRUE, !.authError = TRUE]
        /\ UNCHANGED idx
     \/ /\ pc = "refetch"
        /\ pc' = "reconnectDelay"
        /\ cyc' = [cyc EXCEPT !.nodeWork = TRUE, !.authError = TRUE]
        /\ UNCHANGED <<idx, proc>>
  /\ UNCHANGED <<nodes, current_status, disconnect_time, i, env, store, now,
                 run>>

\* the process stops anywhere inside the loop and is started again:
\* __init__ and monitor() run anew against the same Redis
Crash ==
  /\ pc \notin {"start", "terminated"}
  /\ faults < MaxRestarts
  /\ faults' = faults + 1
  /\ pc' = "start"
  /\ nodes' = << >>
  /\ idx' = 1
  /\ current_status' = "none"
  /\ disconnect_time' = NoTime
  /\ i' = 0
  /\ proc' = ProcIdle
  /\ cyc' = CycIdle
  /\ UNCHANGED <<env, store, now, run>>

\* ---------------------------------------------------------- API client

\* what the API client leaves alone
monitorVars == <<pc, locals, settings, store, faults, proc, cyc, run, rec>>

\* values of expires_in in the answer of POST /admin/token
ExpiresIn == {0, 5, 40}

\* answers to GET /nodes: a list of node objects, a list with an entry that
\* is no node object, a body that is no list, httpx.RequestError, and
\* httpx.HTTPStatusError or a body that is no JSON
ListResponses == {"nodes", "badentries", "notlist", "transient", "httpError"}

\* marzban_api.py:96  except httpx.RequestError
IsTransient(o) == o = "transient"

\* marzban_api.py:91  isinstance(nodes, list)
IsList(o) == o \in {"nodes", "badentries"}

\* variant: one attempt more than retries
HasRetryOneMore(a) == a <= retries

\* marzban_api.py:82  for attempt in range(retries)
HasRetry(a) == a < retries

\* variant: the expiry stored is the time of the authentication
ExpiresAtNow(t, d) == t

\* marzban_api.py:64  time.time() + expires_in
ExpiresAt(t, d) == t + d

\* marzban_api.py:35  time.time() < float(expiry)
Unexpired(t, e) == t < e

\* marzban_api.py:32-33, 62-65  a key set with ex=d at time t is returned by
\* redis.get until its time to live has passed
KeyPresent(ttl) == ttl # NoTime /\ now <= ttl

\* marzban_api.py:62-65  Redis rejects SET with a time to live that is not
\* positive (redis.ResponseError, a RedisError)
StoreRejects(d) == d <= 0

\* marzban_api.py:39-42  a RedisError raised by authenticate: inside the try
\* of get_cached_token it is caught and authenticate is called again, inside
\* the except branch it leaves get_cached_token and get_nodes re-raises it
\* (marzban_api.py:99-101)
StoreError ==
  IF call.inHandler
  THEN /\ apc' = "idle"
       /\ call' = [call EXCEPT !.result = "store"]
  ELSE /\ apc' = "post"
       /\ call' = [call EXCEPT !.inHandler = TRUE]

\* monitor.py:57  self.api.get_nodes() is called
GetNodesCall ==
  /\ apc = "idle"
  /\ call' = CallIdle
  /\ apc' = "attempt"
  /\ UNCHANGED <<cache, now, monitorVars>>

\* monitor.py:71, 83, 222  the loop sleeps between two get_nodes calls
CallerWait ==
  /\ apc = "idle"
  /\ now + sleep_interval <= horizon
  /\ now' = now + sleep_interval
  /\ UNCHANGED <<client, monitorVars>>

\* marzban_api.py:82-84, 102  head of the for loop of get_nodes
GetNodesAttempt ==
  /\ apc = "attempt"
  /\ IF HasRetry(call.attempt)
     THEN /\ apc' = "getToken"
          /\ call' = [call EXCEPT !.path = "none", !.why = "none",
                                  !.posts = 0, !.inHandler = FALSE]
     ELSE /\ apc' = "idle"
          /\ call' = [call EXCEPT !.result = "exhausted"]
  /\ UNCHANGED <<cache, now, monitorVars>>

\* marzban_api.py:29-42  get_cached_token up to the return of the cached
\* token or the call of authenticate
GetCachedToken ==
  /\ apc = "getToken"
  /\ \/ /\ apc' = "post"
        /\ call' = [call EXCEPT !.why = "readError", !.inHandler = TRUE]
     \/ IF /\ KeyPresent(cache.tokenTtl)
           /\ KeyPresent(cache.expiryTtl)
           /\ Unexpired(now, cache.expiry)
        THEN /\ apc' = "request"
             /\ call' = [call EXCEPT !.path = "cached",
                                     !.token = cache.token,
                                     !.retExpiry = cache.expiry]
        ELSE /\ apc' = "post"
             /\ call' = [call EXCEPT !.why =
                           IF /\ KeyPresent(cache.tokenTtl)
                              /\ KeyPresent(cache.expiryTtl)
                           THEN "expired" ELSE "miss"]
  /\ UNCHANGED <<cache, now, monitorVars>>

\* marzban_api.py:46-60, 71-73  POST /admin/token: httpx.HTTPError becomes
\* Exception("Authentication failed"), which get_nodes re-raises
Authenticate ==
  /\ apc = "post"
  /\ \/ /\ apc' = "idle"
        /\ call' = [call EXCEPT !.posts = @ + 1, !.result = "auth"]
     \/ \E e \in ExpiresIn :
          /\ apc' = "storeToken"
          /\ call' = [call EXCEPT !.posts = @ + 1, !.token = now,
                                  !.expires_in = e]
  /\ UNCHANGED <<cache, now, monitorVars>>

\* marzban_api.py:62  self.redis.set(self.token_key, ..., ex=expires_in)
StoreToken ==
  /\ apc = "storeToken"
  /\ \/ /\ ~StoreRejects(call.expires_in)
        /\ cache' = [cache EXCEPT !.token = call.token,
                                  !.tokenTtl = now + call.expires_in]
        /\ apc' = "storeExpiry"
        /\ UNCHANGED call
     \/ /\ StoreError
        /\ UNCHANGED cache
  /\ UNCHANGED <<now, monitorVars>>

\* marzban_api.py:63-70  self.redis.set(self.token_expiry_key, ...), then
\* the new token is returned
StoreExpiry ==
  /\ apc = "storeExpiry"
  /\ \/ /\ cache' = [cache EXCEPT
                       !.expiry = ExpiresAt(now, call.expires_in),
                       !.expiryTtl = now + call.expires_in]
        /\ apc' = "request"
        /\ call' = [call EXCEPT
                      !.path = "fresh",
                      !.retExpiry = ExpiresAt(now, call.expires_in)]
     \/ /\ StoreError
        /\ UNCHANGED cache
  /\ UNCHANGED <<now, monitorVars>>

\* marzban_api.py:85-101  GET /nodes and the handling of its answer
GetNodesRequest ==
  /\ apc = "request"
  /\ \E o \in ListResponses :
       LET c == [call EXCEPT !.requests = @ + 1, !.lastOutcome = o,
                             !.malformedAt =
                               IF o \in {"badentries", "notlist"}
                               THEN call.requests + 1 ELSE @]
       IN  IF IsTransient(o)
           THEN /\ apc' = "retryDelay"
                /\ call' = [c EXCEPT !.transients = @ + 1]
           ELSE /\ apc' = "idle"
                /\ call' = IF o = "httpError"
                           THEN [c EXCEPT !.result = "http"]
                           ELSE IF IsList(o)
                           THEN [c EXCEPT !.result = "ok", !.body = o]
                           ELSE [c EXCEPT !.result = "protocol"]
  /\ UNCHANGED <<cache, now, monitorVars>>

\* marzban_api.py:96-98  time.sleep(delay), then the next attempt
GetNodesDelay ==
  /\ apc = "retryDelay"
  /\ now + delay <= horizon
  /\ now' = now + delay
  /\ call' = [call EXCEPT !.slept = @ + delay, !.attempt = @ + 1]
  /\ apc' = "attempt"
  /\ UNCHANGED <<cache, monitorVars>>

Next ==
  \/ Start
  \/ ListNodes
  \/ ListTimeoutAlert
  \/ ListErrorAlert
  \/ ListFailureWait
  \/ GetNode
  \/ CheckRecovered
  \/ GetDisconnectTime
  \/ SendReconnected
  \/ DeleteStatus
  \/ DeleteTime
  \/ CheckAlerted
  \/ SendDisconnected
  \/ SetDisconnectTime
  \/ Reconnect
  \/ CheckDelay
  \/ Refetch
  \/ SendAfterAttempts
  \/ DeleteStatusAfter
  \/ DeleteTimeAfter
  \/ ReconnectDelay
  \/ SendReconnectFailed
  \/ SetStatus
  \/ CycleSleep

NextFaults ==
  \/ Next
  \/ CatchAll
  \/ EntryFault
  \/ StoreFault
  \/ NotifierFault

NextCrash ==
  \/ Next
  \/ Crash

NextAuth ==
  \/ Next
  \/ AuthFault

NextApi ==
  \/ GetNodesCall
  \/ CallerWait
  \/ GetNodesAttempt
  \/ GetCachedToken
  \/ Authenticate
  \/ StoreToken
  \/ StoreExpiry
  \/ GetNodesRequest
  \/ GetNodesDelay

\* the loop with a reachable store and a delivering notifier
Spec == Init /\ [][Next]_vars

\* one node, a horizon long enough for four cycles
SpecScenario == InitScenario /\ [][Next]_vars

\* list entries may be malformed, Redis calls and notifier calls may raise
SpecFaults == InitFaults /\ [][NextFaults]_vars

\* the process may be stopped and started again
SpecCrash == InitFaults /\ [][NextCrash]_vars

\* the acquisition of the token may fail inside any API call of the loop
SpecAuth == InitFaults /\ [][NextAuth]_vars

\* get_nodes calls of the API client, with the token cache
SpecApi == InitApi /\ [][NextApi]_vars


\* ------------------------------------------------------------- claims

\* the handling of node n has just ended (the for loop is at its head)
Handled(n) == pc = "loop" /\ proc.done /\ proc.node = n

\* get_node answered for the node being handled, with a status that is
\* neither connected nor disabled
ProcDown == proc.status \notin {"none", "raise"} /\ IsDown(proc.status)

\* C1 (as stated): in every run of consecutive cycles whose get_node reports
\* are all non-connected and non-disabled, once a cycle of the run has been
\* completed exactly one ERROR_NODE_DISCONNECTED was sent and
\* node_disconnect_time:<id> was written exactly once.
C1_ExactlyOneAlertPerRun ==
  \A n \in Nodes :
    (run[n].active /\ run[n].cycles >= 1)
      => (run[n].alerts = 1 /\ run[n].stamps = 1)

\* C1 (amended): a run that starts while node_status:<id> is not
\* "disconnected" sends exactly one ERROR_NODE_DISCONNECTED and writes
\* node_disconnect_time:<id> exactly once, in its first cycle; a run that
\* starts while node_status:<id> is "disconnected" sends none and writes
\* nothing; in both cases node_disconnect_time:<id> keeps its value for the
\* rest of the run.
C1_OneAlertPerNewRun ==
  \A n \in Nodes :
    run[n].active =>
      /\ run[n].alerts <= 1
      /\ run[n].stamps <= 1
      /\ run[n].alerts = run[n].stamps \/ pc = "setTime"
      /\ run[n].hadRecord =>
           (run[n].alerts = 0 /\ run[n].stamps = 0 /\ redisTime[n] = run[n].t0)
      /\ (~run[n].hadRecord /\ run[n].cycles >= 1) =>
           (run[n].alerts = 1 /\ run[n].stamps = 1 /\ redisTime[n] = run[n].t0)

C1_Witness ==
  \E n \in Nodes :
    /\ run[n].active
    /\ ~run[n].hadRecord
    /\ run[n].cycles >= 2
    /\ run[n].alerts = 1
    /\ redisTime[n] = run[n].t0
    /\ redisTime[n] < now

\* C2: when the handling of a node that was reported connected and had
\* node_status:<id> = "disconnected" with node_disconnect_time:<id> = T0 ends,
\* exactly one SUCCESS_NODE_RECONNECTED was sent, its downtime_minutes is
\* (now - T0) / 60 rounded to two decimals, reconnect_node was not called and
\* both keys of the node are gone.
C2_RecoveryTransition ==
  \A n \in Nodes :
    (Handled(n) /\ proc.status = "connected" /\ proc.hadRecord) =>
      /\ proc.recon = 1
      /\ proc.t0 # NoTime
      /\ 60 * proc.downtime >= 100 * (now - proc.t0) - 30
      /\ 60 * proc.downtime <= 100 * (now - proc.t0) + 30
      /\ proc.reconnects = 0
      /\ proc.disc = 0 /\ proc.after = 0 /\ proc.failed = 0
      /\ redisStatus[n] = "none"
      /\ redisTime[n] = NoTime

C2_Witness ==
  \E n \in Nodes :
    /\ Handled(n) /\ proc.status = "connected" /\ proc.hadRecord
    /\ proc.recon = 1
    /\ now - proc.t0 = 40
    /\ proc.downtime = 67

\* C3: when the reconnect loop of a node ends without any re-fetch having
\* reported connected, reconnect_node was called reconnect_attempts times,
\* exactly one ERROR_NODE_RECONNECT_FAILED was sent, node_status:<id> is
\* "disconnected" and node_disconnect_time:<id> still holds the value it had
\* before the loop (written at first detection).
C3_ExhaustionKeepsRecord ==
  \A n \in Nodes :
    (Handled(n) /\ ProcDown /\ proc.connectedAt = 0) =>
      /\ proc.failed = 1
      /\ proc.after = 0
      /\ proc.reconnects = reconnect_attempts
      /\ redisStatus[n] = "disconnected"
      /\ proc.t0 # NoTime
      /\ redisTime[n] = proc.t0

C3_Witness ==
  \E n \in Nodes :
    /\ Handled(n) /\ ProcDown /\ proc.connectedAt = 0
    /\ proc.failed = 1
    /\ ~proc.hadRecord
    /\ redisTime[n] = proc.t0
    /\ redisTime[n] < now

\* C4: while a node is handled reconnect_node is called at most
\* reconnect_attempts times; once a re-fetch has reported connected, at
\* attempt k, no further reconnect_node call is made, and when the handling
\* ends exactly one SUCCESS_NODE_RECONNECTED_AFTER_ATTEMPTS was sent, with
\* attempts = k, and both keys of the node are gone.
C4_StopsAtFirstConnected ==
  /\ proc.reconnects <= reconnect_attempts
  /\ proc.connectedAt # 0 =>
       /\ proc.reconnects = proc.connectedAt
       /\ proc.after <= 1
       /\ proc.failed = 0
       /\ \A n \in Nodes :
            Handled(n) =>
              /\ proc.after = 1
              /\ proc.afterAttempts = proc.connectedAt
              /\ redisStatus[n] = "none"
              /\ redisTime[n] = NoTime

C4_Witness ==
  \E n \in Nodes :
    /\ Handled(n)
    /\ proc.connectedAt = 2
    /\ proc.afterAttempts = 2
    /\ reconnect_attempts = 3

\* C5: while and after a node whose get_node reported disabled is handled,
\* with or without a stored record, no ERROR_NODE_DISCONNECTED is sent for it
\* and reconnect_node is not called for it.
C5_DisabledIsLeftAlone ==
  proc.status = "disabled" =>
    /\ proc.disc = 0
    /\ proc.reconnects = 0
    /\ proc.failed = 0
    /\ proc.after = 0
    /\ pc \in {"checkRecovered", "loop"}

C5_Witness ==
  \E n \in Nodes :
    /\ Handled(n)
    /\ proc.status = "disabled"
    /\ proc.hadRecord
    /\ redisStatus[n] = "disconnected"

\* C6: in a cycle whose get_nodes failed no node is handled, and when the
\* next cycle starts exactly one ERROR_MONITOR_FAILURE was sent and the loop
\* has slept sleep_interval.
C6_ListFailureSkipsCycle ==
  cyc.listFailed =>
    /\ ~cyc.nodeWork
    /\ pc \in {"listTimeout", "listError", "failSleep", "list"}
    /\ pc \in {"listTimeout", "listError"} => (cyc.failures = 0 /\ cyc.slept = 0)
    /\ pc = "failSleep" => (cyc.failures = 1 /\ cyc.slept = 0)
    /\ pc = "list" => (cyc.failures = 1 /\ cyc.slept = sleep_interval)

C6_Witness ==
  /\ cyc.listFailed
  /\ pc = "list"
  /\ cyc.failures = 1
  /\ cyc.slept = sleep_interval
  /\ \E n \in Nodes : redisStatus[n] = "disconnected"

\* the scenario of C7 at the end of the k-th cycle: reconnect_attempts = 2,
\* the node had no record when first reported non-connected, and every
\* reconnect_node call so far raised
Scenario(n, k) ==
  /\ reconnect_attempts = 2
  /\ Handled(n)
  /\ ProcDown
  /\ run[n].active
  /\ ~run[n].hadRecord
  /\ run[n].clean
  /\ run[n].cycles = k

\* C7 (as stated): in cycles 2 to 4 of the scenario two
\* ERROR_NODE_RECONNECT_FAILED are sent per cycle.
C7_TwoFailedAlertsPerCycle ==
  \A n \in Nodes : \A k \in 2..4 :
    Scenario(n, k) => (run[n].alerts = 1 /\ proc.failed = 2)

\* C7 (amended): in every cycle 1 to 4 of the scenario exactly one
\* ERROR_NODE_RECONNECT_FAILED is sent, after two reconnect_node calls; one
\* ERROR_NODE_DISCONNECTED is sent, in cycle 1; node_status:<id> is
\* "disconnected" from the end of cycle 1 on.
C7_OneFailedAlertPerCycle ==
  \A n \in Nodes :
    /\ \A k \in 1..4 :
         Scenario(n, k) =>
           /\ proc.failed = 1
           /\ proc.reconnects = 2
           /\ run[n].alerts = 1
           /\ proc.disc = (IF k = 1 THEN 1 ELSE 0)
    /\ (run[n].active /\ run[n].cycles >= 1) => redisStatus[n] = "disconnected"

C7_Witness ==
  \E n \in Nodes : Scenario(n, 4) /\ proc.failed = 1

\* C8: across a stop and restart of the process, a run of non-connected
\* reports of a node gets at most one ERROR_NODE_DISCONNECTED and
\* node_disconnect_time:<id> is written at most once.
C8_NoDoubleAlertAcrossRestart ==
  \A n \in Nodes :
    run[n].active => (run[n].alerts <= 1 /\ run[n].stamps <= 1)

\* C9: once an exception raised inside a cycle has reached the catch-all of
\* the loop, no exception leaves monitor(): the loop does not terminate.
C9_LoopNeverTerminates == cyc.raised => pc # "terminated"

\* C10: when a Redis call raised while a node was handled, every node listed
\* after that node has been handled by the time the next cycle starts.
C10_StoreFaultContained ==
  (pc = "list" /\ cyc.storeFault) => idx >= Len(nodes)

\* the initial get_node of the node just handled raised
Skipped == pc = "loop" /\ proc.done /\ proc.status = "raise"

\* C11: when the initial get_node of a node fails, the node is skipped for
\* the cycle: nothing is sent for it, reconnect_node is not called, its record
\* is what it was before the call, and the for loop stands right after the
\* node, so the rest of the list is still handled in list order.
C11_FailedGetNodeSkipsNode ==
  Skipped =>
    /\ proc.disc = 0 /\ proc.recon = 0 /\ proc.after = 0 /\ proc.failed = 0
    /\ proc.reconnects = 0
    /\ (redisStatus[proc.node] = "disconnected") = proc.hadRecord
    /\ redisTime[proc.node] = proc.t0
    /\ idx - 1 \in 1..Len(nodes)
    /\ nodes[idx - 1] = proc.node
    /\ cyc.failures = 0

\* a node with a stored record is skipped and another node is left in the list
C11_Witness ==
  /\ Skipped
  /\ proc.hadRecord
  /\ idx <= Len(nodes)

\* C12: every cycle-level error, a failed get_nodes as well as an exception
\* caught by the outer except, is followed by ERROR_MONITOR_FAILURE and a
\* sleep of sleep_interval before the next cycle calls get_nodes.
C12_FailureThenFullSleep ==
  (pc = "list" /\ (cyc.listFailed \/ cyc.caught)) =>
    (cyc.failures >= 1 /\ cyc.slept = sleep_interval)

\* C16: a node has one record at most; while node_status:<id> is
\* "disconnected" an ERROR_NODE_DISCONNECTED has been sent for the record, and
\* node_disconnect_time:<id> keeps the value first written to it until the
\* record is deleted. (One record per node holds by construction: the two
\* keys are functions of the node id.)
C16_RecordInvariant ==
  \A n \in Nodes :
    /\ redisStatus[n] = "disconnected" => rec[n].alerted
    /\ (redisTime[n] # NoTime /\ rec[n].t0 # NoTime) => redisTime[n] = rec[n].t0

\* C18: a stored record is consumed once: between two deletions of the
\* record at most one SUCCESS_NODE_RECONNECTED is sent for the node, a stop
\* between the send and the deletes included.
C18_RecordConsumedOnce ==
  \A n \in Nodes : rec[n].recon <= 1

\* C19: a cycle in which get_node reports disabled leaves both keys of the
\* node as they were and sends nothing for it; when a node whose record was
\* kept through disabled cycles is then reported connected, exactly one
\* SUCCESS_NODE_RECONNECTED is sent, its downtime is measured from the value
\* first written to node_disconnect_time:<id>, and both keys are gone.
C19_DisabledKeepsRecord ==
  \A n \in Nodes :
    /\ (proc.node = n /\ proc.status = "disabled") =>
         /\ (redisStatus[n] = "disconnected") = proc.hadRecord
         /\ redisTime[n] = proc.t0
         /\ proc.disc = 0 /\ proc.recon = 0 /\ proc.after = 0
         /\ proc.failed = 0 /\ proc.reconnects = 0
    /\ (Handled(n) /\ proc.status = "connected" /\ proc.staleT0 # NoTime) =>
         /\ proc.recon = 1
         /\ 60 * proc.downtime >= 100 * (now - proc.staleT0) - 30
         /\ 60 * proc.downtime <= 100 * (now - proc.staleT0) + 30
         /\ redisStatus[n] = "none"
         /\ redisTime[n] = NoTime

\* error at 0 s, disabled at 35 s, connected at 65 s
C19_Witness ==
  \E n \in Nodes :
    /\ Handled(n) /\ proc.status = "connected"
    /\ proc.staleT0 = 0
    /\ now = 65
    /\ proc.recon = 1
    /\ proc.downtime = 108

\* C20: node_status:<id> = "disconnected" implies node_disconnect_time:<id>
\* is present, the recovery branch deletes no record without having sent
\* SUCCESS_NODE_RECONNECTED, and when the handling of a node ends without an
\* exception the two keys of the node are both present or both absent.
C20_KeyPairConsistent ==
  \A n \in Nodes :
    /\ redisStatus[n] = "disconnected" => redisTime[n] # NoTime
    /\ (pc = "delStatus" /\ proc.node = n) => proc.recon = 1
    /\ (Handled(n) /\ proc.status # "raise") =>
         ((redisStatus[n] = "disconnected") = (redisTime[n] # NoTime))

\* C17: when the acquisition of the token failed inside an API call of a
\* cycle (get_nodes, get_node or reconnect_node), an ERROR_MONITOR_FAILURE
\* has been sent by the time the next cycle starts.
C17_AuthErrorForcesAlert ==
  (pc = "list" /\ cyc.authError) => cyc.failures >= 1

\* C13: when get_cached_token returns a token, the expiry it is returned
\* with is later than the time of the return; a cached token is returned
\* only with both keys present and time.time() < the stored expiry, without
\* any POST; a token is newly acquired only after a miss, an expired entry
\* or a Redis read error, and is returned only once it is stored together
\* with the expiry time.time() + expires_in.
C13_TokenUnexpired ==
  /\ apc = "post" => call.why \in {"miss", "expired", "readError"}
  /\ apc = "request" =>
       /\ call.path \in {"cached", "fresh"}
       /\ call.retExpiry > now
       /\ call.path = "cached" =>
            /\ call.why = "none"
            /\ call.posts = 0
            /\ call.token = cache.token
            /\ call.retExpiry = cache.expiry
            /\ now < cache.expiry
       /\ call.path = "fresh" =>
            /\ call.why \in {"miss", "expired", "readError"}
            /\ call.posts >= 1
            /\ cache.token = call.token
            /\ cache.expiry = now + call.expires_in
            /\ call.retExpiry = now + call.expires_in

\* the token acquired at 0 s with expires_in = 5 is found expired at 5 s,
\* on the second attempt of the same get_nodes call, and a new one is
\* acquired
C13_Witness ==
  /\ apc = "request"
  /\ call.path = "fresh"
  /\ call.why = "expired"
  /\ now = 5
  /\ call.retExpiry > now

\* C14: one get_nodes call sends at most retries list requests and sleeps
\* delay after each transient failure; it returns the list of the first
\* request that is answered with one, and it fails with "Exceeded maximum
\* retries" exactly when retries requests failed transiently.
C14_RetryBound ==
  /\ call.requests <= retries
  /\ apc # "retryDelay" => call.slept = delay * call.transients
  /\ (apc = "idle" /\ call.result # "none") =>
       /\ (call.result = "exhausted") = (call.transients = retries)
       /\ call.result = "ok" =>
            /\ call.requests = call.transients + 1
            /\ call.body = call.lastOutcome
            /\ IsList(call.body)

\* the third request is the first one answered with a list
C14_Witness ==
  /\ apc = "idle"
  /\ call.result = "ok"
  /\ call.transients = 2
  /\ call.requests = 3
  /\ call.slept = 2 * delay

\* C15: once a list request has been answered with a body that is no list
\* of node objects, get_nodes has failed with the protocol error (ValueError)
\* and sends no further request and sleeps no more.
C15_ProtocolErrorNotRetried ==
  call.malformedAt # 0 =>
    /\ apc = "idle"
    /\ call.result = "protocol"
    /\ call.requests = call.malformedAt
    /\ call.slept = delay * call.transients

====
